---- MODULE Spec2Model ----
(***************************************************************************)
(* Model of crates/chain-manager/src/api.rs: the ChainManagerImpl gateway. *)
(* A DashMap of provider handles keyed by chain id, filled lazily by       *)
(* get_provider, and the two RPC methods finalised_header and              *)
(* transaction_receipt that resolve a provider and query the node.         *)
(* Callers run concurrently; a call is suspended at each .await.           *)
(***************************************************************************)
EXTENDS Integers, FiniteSets, Sequences, TLC

\* ---------------------------------------------------------------- bounds
NumCallers == 2
MaxCalls == 3
MaxBlock == 1

Callers == 1..NumCallers

\* ------------------------------------------------------------- test data
\* chain ids of the anvil instances the tests spawn, and the unknown id
\* test_unknown_chain_error asks for
UnknownChainId == 9999
RequestIds == {1, 2, UnknownChainId}

\* create_configs: one ChainConfig per anvil instance, chain ids 1 and 2
TestConfigs ==
    << [chain_id |-> 1, rpc_url |-> "http://localhost:8545"],
       [chain_id |-> 2, rpc_url |-> "http://localhost:8546"] >>

Urls == {TestConfigs[i].rpc_url : i \in DOMAIN TestConfigs}

\* BlockNumberOrTag values the callers pass as `at`
Latest == [tag |-> "Latest", number |-> 0]
Number(n) == [tag |-> "Number", number |-> n]
Selectors == {Latest, Number(1)}

\* the transaction hash the callers ask for: the transaction is included in
\* block 1, so it has no receipt while the node is at genesis
TxMined == "0xaa"
TxHashes == {TxMined}

NoArg == [tag |-> "None", number |-> 0]

\* ------------------------------------------------------ Result / Option
None == [kind |-> "None"]
Some(v) == [kind |-> "Some", value |-> v]
Ok(v) == [kind |-> "Ok", value |-> v]
Err(e) == [kind |-> "Err", error |-> e]
Panic == [kind |-> "Panic"]
Pending == [kind |-> "Pending"]

\* ------------------------------------------------------ ChainManagerError
ChainIdNotFound(reason, chain_id) ==
    [variant |-> "ChainIdNotFound", reason |-> reason, chain_id |-> chain_id]
NodeFailure(reason, chain_id) ==
    [variant |-> "NodeFailure", reason |-> reason, chain_id |-> chain_id]
ProviderFailure(reason, chain_id) ==
    [variant |-> "ProviderFailure", reason |-> reason, chain_id |-> chain_id]
GenericFailure(reason, chain_id) ==
    [variant |-> "GenericFailure", reason |-> reason, chain_id |-> chain_id]

VARIABLES
    configs,     \* ChainManagerImpl.configs
    providers,   \* ChainManagerImpl.providers: chain id -> handle
    nextHandle,  \* identity of the next Arc<dyn Provider> allocated
    head,        \* block height of the node behind each rpc_url
    pc,          \* position of each caller inside its call
    call,        \* the call each caller is running: op, chain_id, arg
    url,         \* get_provider's local `url`
    provider,    \* the Result get_provider gave back (local `provider`)
    reply,       \* the Result of the remote query (local `header`/`receipt`)
    result,      \* what the call returned to its caller
    steps,       \* per call: how often each statement of the call ran
    stats,       \* per chain id: establishments, failures, cache writes,
                 \* and whether two calls for it ever ran at the same time
    calls,       \* number of calls started
    thrown,      \* the ChainManagerError handed to From::from
    wire,        \* the ErrorObjectOwned it was converted to
    sent         \* the (variant, code) pairs converted so far

vars == << configs, providers, nextHandle, head, pc, call, url, provider,
           reply, result, steps, stats, calls, thrown, wire, sent >>

gatewayVars == << configs, providers, nextHandle, head, pc, call, url,
                  provider, reply, result, steps, stats, calls >>

NoError == [variant |-> "none", reason |-> "", chain_id |-> 0]
NoWire == [code |-> 0, message |-> "", data |-> None]

NoCall == [op |-> "none", chain_id |-> 0, arg |-> NoArg]
NoSteps == [config |-> 0, connect |-> 0, insert |-> 0, query |-> 0]
NoStats == [established |-> 0, failed |-> 0, writes |-> 0, overlapped |-> FALSE]
NoUrl == ""

\* ------------------------------------------------------------- DashMap
EmptyMap == [k \in {} |-> None]

\* a lookup that never finds the entry
GetAlwaysMisses(map, k) == None

\* an insert that is left out
InsertNothing(map, k, v) == map

\* an insert that builds the map anew from the one entry
InsertAlone(map, k, v) == [x \in {k} |-> v]

Get(map, k) == IF k \in DOMAIN map THEN Some(map[k]) ELSE None

Insert(map, k, v) ==
    [x \in DOMAIN map \cup {k} |-> IF x = k THEN v ELSE map[x]]

\* configs.iter().find(|config| config.chain_id == chain_id)
RECURSIVE FindFrom(_, _, _)
FindFrom(cfgs, i, chain_id) ==
    IF i > Len(cfgs) THEN None
    ELSE IF cfgs[i].chain_id = chain_id THEN Some(cfgs[i])
    ELSE FindFrom(cfgs, i + 1, chain_id)

\* a find that falls back to the first entry when nothing matches
FindConfigOrFirst(cfgs, chain_id) ==
    IF FindFrom(cfgs, 1, chain_id).kind = "None" /\ Len(cfgs) > 0
    THEN Some(cfgs[1])
    ELSE FindFrom(cfgs, 1, chain_id)

\* a find that tests for the id but hands back the head of the list
FindConfigTakesFirst(cfgs, chain_id) ==
    IF FindFrom(cfgs, 1, chain_id).kind = "None" THEN None ELSE Some(cfgs[1])

FindConfig(cfgs, chain_id) == FindFrom(cfgs, 1, chain_id)

NotConfigured(chain_id) ==
    ChainIdNotFound("Chain id not configured", chain_id)

\* a failed connect reported under the variant documented for failed
\* provider initialisation
ConnectErrorAsProviderFailure(chain_id) ==
    ProviderFailure("Something went wrong while initialising provider", chain_id)

ConnectError(chain_id) ==
    GenericFailure("Something went wrong while initialising provider", chain_id)

HeaderError(chain_id) ==
    GenericFailure("Something went wrong while getting finalised header", chain_id)

ReceiptError(chain_id) ==
    GenericFailure("Something went wrong while getting transaction receipt", chain_id)

\* ------------------------------------------- From<ChainManagerError>
\* a conversion that gives ProviderFailure the code of GenericFailure
ErrorObjectCollapsing(error) ==
    [code |-> CASE error.variant = "ChainIdNotFound" -> -4004
                [] error.variant = "NodeFailure" -> -4005
                [] error.variant = "ProviderFailure" -> -4007
                [] error.variant = "GenericFailure" -> -4007,
     message |-> error.reason,
     data |-> Some(error.chain_id)]

\* ErrorObjectOwned::owned(code, reason, Some(chain_id)), by variant
ErrorObject(error) ==
    [code |-> CASE error.variant = "ChainIdNotFound" -> -4004
                [] error.variant = "NodeFailure" -> -4005
                [] error.variant = "ProviderFailure" -> -4006
                [] error.variant = "GenericFailure" -> -4007,
     message |-> error.reason,
     data |-> Some(error.chain_id)]

\* ------------------------------------------------------------ the node
\* eth_getBlockByNumber as the node behind `u` answers it at height h
GetBlockByNumber(u, h, at) ==
    IF at.tag = "Latest" THEN Some([header |-> [number |-> h, origin |-> u]])
    ELSE IF at.number <= h
         THEN Some([header |-> [number |-> at.number, origin |-> u]])
         ELSE None

\* eth_getTransactionReceipt: TxMined has a receipt once block 1 exists
GetTransactionReceipt(u, h, tx_hash) ==
    IF tx_hash = TxMined /\ h >= 1
    THEN Some([transaction_hash |-> tx_hash, status |-> TRUE, origin |-> u])
    ELSE None

\* ----------------------------------------------------------------- Init
\* ChainManagerImpl::new(configs): the given configs and an empty map
New(cfgs) ==
    /\ configs = cfgs
    /\ providers = EmptyMap
    /\ nextHandle = 1
    /\ head = [u \in Urls |-> 0]
    /\ pc = [t \in Callers |-> "idle"]
    /\ call = [t \in Callers |-> NoCall]
    /\ url = [t \in Callers |-> NoUrl]
    /\ provider = [t \in Callers |-> Pending]
    /\ reply = [t \in Callers |-> Pending]
    /\ result = [t \in Callers |-> Pending]
    /\ steps = [t \in Callers |-> NoSteps]
    /\ stats = [c \in RequestIds |-> NoStats]
    /\ calls = 0
    /\ thrown = NoError
    /\ wire = NoWire
    /\ sent = {}

Init == New(TestConfigs)

\* a config list that names chain id 1 twice, once for each node
DuplicateConfigs ==
    << [chain_id |-> 1, rpc_url |-> "http://localhost:8545"],
       [chain_id |-> 1, rpc_url |-> "http://localhost:8546"] >>

InitDuplicate == New(DuplicateConfigs)

\* -------------------------------------------------------------- actions
Requests ==
    {[op |-> "get_provider", chain_id |-> c, arg |-> NoArg] : c \in RequestIds}
    \cup {[op |-> "finalised_header", chain_id |-> c, arg |-> a] :
             c \in RequestIds, a \in Selectors}
    \cup {[op |-> "transaction_receipt", chain_id |-> c,
           arg |-> [tag |-> "Hash", number |-> 0, hash |-> h]] :
             c \in RequestIds, h \in TxHashes}

\* a call that has started and not yet completed
InFlight(t) == pc[t] \notin {"idle", "done"}

\* a caller starts a call; its locals are fresh
Begin(t, req) ==
    /\ pc[t] \in {"idle", "done"}
    /\ calls < MaxCalls
    /\ calls' = calls + 1
    /\ stats' = [stats EXCEPT ![req.chain_id].overlapped =
                    @ \/ \E u \in Callers \ {t} :
                            InFlight(u) /\ call[u].chain_id = req.chain_id]
    /\ pc' = [pc EXCEPT ![t] = "lookup"]
    /\ call' = [call EXCEPT ![t] = req]
    /\ url' = [url EXCEPT ![t] = NoUrl]
    /\ provider' = [provider EXCEPT ![t] = Pending]
    /\ reply' = [reply EXCEPT ![t] = Pending]
    /\ result' = [result EXCEPT ![t] = Pending]
    /\ steps' = [steps EXCEPT ![t] = NoSteps]
    /\ UNCHANGED << thrown, wire, sent, configs, providers, nextHandle, head >>

Call(t) == \E req \in Requests : Begin(t, req)

\* get_provider hands r back to the code that called it: a direct caller
\* receives r; the RPC methods unwrap it (a panic on Err) and go on to the
\* query
Return(t, r) ==
    /\ provider' = [provider EXCEPT ![t] = r]
    /\ IF call[t].op = "get_provider"
       THEN /\ pc' = [pc EXCEPT ![t] = "done"]
            /\ result' = [result EXCEPT ![t] = r]
       ELSE IF r.kind = "Err"
       THEN /\ pc' = [pc EXCEPT ![t] = "done"]
            /\ result' = [result EXCEPT ![t] = Panic]
       ELSE /\ pc' = [pc EXCEPT ![t] = "query"]
            /\ UNCHANGED result

\* a lookup behind a cache lock that a caller keeps while it connects
LookupBehindLock(t) ==
    /\ pc[t] = "lookup"
    /\ \A u \in Callers : pc[u] # "connect"
    /\ LET c == call[t].chain_id
           cached == Get(providers, c)
           found == FindConfig(configs, c)
       IN IF cached.kind = "Some"
          THEN /\ Return(t, Ok(cached.value))
               /\ UNCHANGED << url, steps >>
          ELSE IF found.kind = "None"
          THEN /\ Return(t, Err(NotConfigured(c)))
               /\ steps' = [steps EXCEPT ![t].config = @ + 1]
               /\ UNCHANGED url
          ELSE /\ pc' = [pc EXCEPT ![t] = "connect"]
               /\ url' = [url EXCEPT ![t] = found.value.rpc_url]
               /\ steps' = [steps EXCEPT ![t].config = @ + 1]
               /\ UNCHANGED << provider, result >>
    /\ UNCHANGED << thrown, wire, sent, configs, providers, nextHandle, head, call, reply,
                    stats, calls >>

\* get_provider up to the connect await: the cache lookup, then the search
\* of the configs
Lookup(t) ==
    /\ pc[t] = "lookup"
    /\ LET c == call[t].chain_id
           cached == Get(providers, c)
           found == FindConfig(configs, c)
       IN IF cached.kind = "Some"
          THEN /\ Return(t, Ok(cached.value))
               /\ UNCHANGED << url, steps >>
          ELSE IF found.kind = "None"
          THEN /\ Return(t, Err(NotConfigured(c)))
               /\ steps' = [steps EXCEPT ![t].config = @ + 1]
               /\ UNCHANGED url
          ELSE /\ pc' = [pc EXCEPT ![t] = "connect"]
               /\ url' = [url EXCEPT ![t] = found.value.rpc_url]
               /\ steps' = [steps EXCEPT ![t].config = @ + 1]
               /\ UNCHANGED << provider, result >>
    /\ UNCHANGED << thrown, wire, sent, configs, providers, nextHandle, head, call, reply,
                    stats, calls >>

\* ProviderBuilder::new().connect(url).await succeeds: a new handle
ConnectOk(t) ==
    /\ pc[t] = "connect"
    /\ LET c == call[t].chain_id
       IN /\ provider' = [provider EXCEPT
                            ![t] = Ok([id |-> nextHandle, url |-> url[t]])]
          /\ stats' = [stats EXCEPT ![c].established = @ + 1]
    /\ nextHandle' = nextHandle + 1
    /\ pc' = [pc EXCEPT ![t] = "insert"]
    /\ steps' = [steps EXCEPT ![t].connect = @ + 1]
    /\ UNCHANGED << thrown, wire, sent, configs, providers, head, call, url, reply, result, calls >>

\* a failed connect that is tried a second time before it is reported
ConnectFailRetrying(t) ==
    /\ pc[t] = "connect"
    /\ LET c == call[t].chain_id
       IN /\ IF steps[t].connect = 0
             THEN UNCHANGED << pc, provider, result >>
             ELSE Return(t, Err(ConnectError(c)))
          /\ stats' = [stats EXCEPT ![c].failed = @ + 1]
    /\ steps' = [steps EXCEPT ![t].connect = @ + 1]
    /\ UNCHANGED << thrown, wire, sent, configs, providers, nextHandle, head,
                    call, url, reply, calls >>

\* ProviderBuilder::new().connect(url).await fails: map_err and `?`
ConnectFail(t) ==
    /\ pc[t] = "connect"
    /\ LET c == call[t].chain_id
       IN /\ Return(t, Err(ConnectError(c)))
          /\ stats' = [stats EXCEPT ![c].failed = @ + 1]
    /\ steps' = [steps EXCEPT ![t].connect = @ + 1]
    /\ UNCHANGED << thrown, wire, sent, configs, providers, nextHandle, head, call, url, reply,
                    calls >>

\* a store into a map that rejects a key it already holds
StorePanicsOnDuplicate(t) ==
    /\ pc[t] = "insert"
    /\ LET c == call[t].chain_id
           h == provider[t].value
       IN IF c \in DOMAIN providers
          THEN /\ pc' = [pc EXCEPT ![t] = "done"]
               /\ result' = [result EXCEPT ![t] = Panic]
               /\ UNCHANGED << providers, stats, provider >>
          ELSE /\ providers' = Insert(providers, c, h)
               /\ stats' = [stats EXCEPT ![c].writes = @ + 1]
               /\ Return(t, Ok(h))
    /\ steps' = [steps EXCEPT ![t].insert = @ + 1]
    /\ UNCHANGED << thrown, wire, sent, configs, nextHandle, head, call, url, reply, calls >>

\* a store that keeps an entry already present and returns that entry
StoreIfAbsent(t) ==
    /\ pc[t] = "insert"
    /\ LET c == call[t].chain_id
           h == IF c \in DOMAIN providers THEN providers[c]
                ELSE provider[t].value
       IN /\ providers' = Insert(providers, c, h)
          /\ stats' = [stats EXCEPT ![c].writes = @ + 1]
          /\ Return(t, Ok(h))
    /\ steps' = [steps EXCEPT ![t].insert = @ + 1]
    /\ UNCHANGED << thrown, wire, sent, configs, nextHandle, head, call, url,
                    reply, calls >>

\* self.providers.insert(chain_id, provider.clone()); Ok(provider)
Store(t) ==
    /\ pc[t] = "insert"
    /\ LET c == call[t].chain_id
           h == provider[t].value
       IN /\ providers' = Insert(providers, c, h)
          /\ stats' = [stats EXCEPT ![c].writes = @ + 1]
          /\ Return(t, Ok(h))
    /\ steps' = [steps EXCEPT ![t].insert = @ + 1]
    /\ UNCHANGED << thrown, wire, sent, configs, nextHandle, head, call, url, reply, calls >>

\* a finalised_header that drops the cached handle when its query fails
HeaderReplyEvicting(t, r) ==
    /\ pc[t] = "query"
    /\ call[t].op = "finalised_header"
    /\ reply' = [reply EXCEPT ![t] = r]
    /\ result' = [result EXCEPT ![t] =
                    IF r.kind = "Err" THEN Panic
                    ELSE IF r.value.kind = "None" THEN Panic
                    ELSE Ok(r.value.value.header)]
    /\ providers' = IF r.kind = "Err"
                    THEN [c \in DOMAIN providers \ {call[t].chain_id} |->
                            providers[c]]
                    ELSE providers
    /\ pc' = [pc EXCEPT ![t] = "done"]
    /\ steps' = [steps EXCEPT ![t].query = @ + 1]
    /\ UNCHANGED << thrown, wire, sent, configs, nextHandle, head, call, url,
                    provider, stats, calls >>

\* finalised_header after the provider is unwrapped: the query, then
\* header.unwrap().unwrap().header
HeaderReply(t, r) ==
    /\ pc[t] = "query"
    /\ call[t].op = "finalised_header"
    /\ reply' = [reply EXCEPT ![t] = r]
    /\ result' = [result EXCEPT ![t] =
                    IF r.kind = "Err" THEN Panic
                    ELSE IF r.value.kind = "None" THEN Panic
                    ELSE Ok(r.value.value.header)]
    /\ pc' = [pc EXCEPT ![t] = "done"]
    /\ steps' = [steps EXCEPT ![t].query = @ + 1]
    /\ UNCHANGED << thrown, wire, sent, configs, providers, nextHandle, head, call, url,
                    provider, stats, calls >>

\* an answer taken from the header another call already returned for the
\* same chain id and selector, when there is one
HeaderAnsweredFromMemo(t) ==
    LET u == provider[t].value.url
        memo == {o \in Callers \ {t} :
                    /\ pc[o] = "done" /\ call[o] = call[t]
                    /\ result[o].kind = "Ok"}
    IN IF memo # {}
       THEN HeaderReply(t, Ok(Some([header |->
                                     result[CHOOSE o \in memo : TRUE].value])))
       ELSE HeaderReply(t, Ok(GetBlockByNumber(u, head[u], call[t].arg)))

\* the node answers get_block_by_number(at).full()
HeaderAnswered(t) ==
    LET u == provider[t].value.url
    IN HeaderReply(t, Ok(GetBlockByNumber(u, head[u], call[t].arg)))

\* the transport fails the request: map_err to GenericFailure
HeaderFailed(t) == HeaderReply(t, Err(HeaderError(call[t].chain_id)))

\* a transaction_receipt that unwraps the Option as finalised_header does
ReceiptReplyUnwrappingOption(t, r) ==
    /\ pc[t] = "query"
    /\ call[t].op = "transaction_receipt"
    /\ reply' = [reply EXCEPT ![t] = r]
    /\ result' = [result EXCEPT ![t] =
                    IF r.kind = "Err" THEN Panic
                    ELSE IF r.value.kind = "None" THEN Panic
                    ELSE Ok(r.value)]
    /\ pc' = [pc EXCEPT ![t] = "done"]
    /\ steps' = [steps EXCEPT ![t].query = @ + 1]
    /\ UNCHANGED << thrown, wire, sent, configs, providers, nextHandle, head, call, url,
                    provider, stats, calls >>

\* transaction_receipt after the provider is unwrapped: the query, then
\* Ok(receipt.unwrap())
ReceiptReply(t, r) ==
    /\ pc[t] = "query"
    /\ call[t].op = "transaction_receipt"
    /\ reply' = [reply EXCEPT ![t] = r]
    /\ result' = [result EXCEPT ![t] =
                    IF r.kind = "Err" THEN Panic ELSE Ok(r.value)]
    /\ pc' = [pc EXCEPT ![t] = "done"]
    /\ steps' = [steps EXCEPT ![t].query = @ + 1]
    /\ UNCHANGED << thrown, wire, sent, configs, providers, nextHandle, head, call, url,
                    provider, stats, calls >>

ReceiptAnswered(t) ==
    LET u == provider[t].value.url
    IN ReceiptReply(t, Ok(GetTransactionReceipt(u, head[u], call[t].arg.hash)))

ReceiptFailed(t) == ReceiptReply(t, Err(ReceiptError(call[t].chain_id)))

\* the chain behind rpc_url u produces a block
Mine(u) ==
    /\ head[u] < MaxBlock
    /\ head' = [head EXCEPT ![u] = @ + 1]
    /\ UNCHANGED << thrown, wire, sent, configs, providers, nextHandle, pc, call, url, provider,
                    reply, result, steps, stats, calls >>

Next ==
    \/ \E t \in Callers : Call(t)
    \/ \E t \in Callers : Lookup(t)
    \/ \E t \in Callers : ConnectOk(t)
    \/ \E t \in Callers : ConnectFail(t)
    \/ \E t \in Callers : Store(t)
    \/ \E t \in Callers : HeaderAnswered(t)
    \/ \E t \in Callers : HeaderFailed(t)
    \/ \E t \in Callers : ReceiptAnswered(t)
    \/ \E t \in Callers : ReceiptFailed(t)
    \/ \E u \in Urls : Mine(u)

Spec == Init /\ [][Next]_vars

\* ---------------------------------------------- the error conversion
\* the ChainManagerError values the conversion is given
Variants == {"ChainIdNotFound", "NodeFailure", "ProviderFailure", "GenericFailure"}
Reasons ==
    {NotConfigured(0).reason, ConnectError(0).reason, HeaderError(0).reason,
     ReceiptError(0).reason}
Errors == [variant : Variants, reason : Reasons, chain_id : RequestIds]

\* a method hands an error to the conversion
Raise(e) ==
    /\ thrown' = e
    /\ wire' = NoWire
    /\ UNCHANGED << sent, gatewayVars >>

\* impl From<ChainManagerError> for ErrorObjectOwned
Convert ==
    /\ thrown # NoError
    /\ wire = NoWire
    /\ wire' = ErrorObject(thrown)
    /\ sent' = sent \cup {[variant |-> thrown.variant,
                            code |-> ErrorObject(thrown).code]}
    /\ UNCHANGED << thrown, gatewayVars >>

NextWire ==
    \/ \E e \in Errors : Raise(e)
    \/ Convert

SpecWire == Init /\ [][NextWire]_vars

\* the gateway constructed from the config list with the repeated chain id
SpecDuplicate == InitDuplicate /\ [][Next]_vars

\* ============================================================== claims
ConfiguredIds == {configs[i].chain_id : i \in DOMAIN configs}
GatewayOps == {"finalised_header", "transaction_receipt"}

\* the caller whose call takes this step
Moves(t) == pc'[t] # pc[t]

\* the step attempts no connection and writes no cache entry
NoConnectNoWrite ==
    /\ providers' = providers
    /\ nextHandle' = nextHandle
    /\ \A c \in RequestIds :
          /\ stats'[c].established = stats[c].established
          /\ stats'[c].failed = stats[c].failed
          /\ stats'[c].writes = stats[c].writes

\* C1: once a handle is stored under a chain id the stored value never
\* changes: every step keeps every existing entry with the same handle
StoredHandleNeverChanges ==
    [][\A c \in DOMAIN providers :
          c \in DOMAIN providers' /\ providers'[c] = providers[c]]_vars

\* C2: a gateway call whose get_provider failed completes by returning that
\* same error to its caller, and has issued no query
ResolveErrorPropagated ==
    \A t \in Callers :
        (pc[t] = "done" /\ call[t].op \in GatewayOps /\ provider[t].kind = "Err")
            => (result[t] = provider[t] /\ steps[t].query = 0)

\* C3: get_provider for a chain id outside the configs returns
\* ChainIdNotFound carrying that id; the call never attempts a connection
\* and its steps leave the cache as it was
UnconfiguredIsChainIdNotFound ==
    [][\A t \in Callers :
          (call'[t].op # "none" /\ call'[t].chain_id \notin ConfiguredIds) =>
              /\ pc'[t] \in {"lookup", "done"}
              /\ steps'[t].connect = 0 /\ steps'[t].insert = 0
              /\ Moves(t) => NoConnectNoWrite
              /\ (pc[t] = "lookup" /\ Moves(t)) =>
                    /\ provider'[t].kind = "Err"
                    /\ provider'[t].error.variant = "ChainIdNotFound"
                    /\ provider'[t].error.chain_id = call[t].chain_id
                    /\ call[t].op = "get_provider" => result'[t] = provider'[t]
      ]_vars

\* C3 witness: get_provider has answered an unconfigured id while the cache
\* held a handle
UnconfiguredAnsweredWithCacheFilled ==
    \E t \in Callers :
        /\ pc[t] = "done" /\ call[t].op = "get_provider"
        /\ call[t].chain_id \notin ConfiguredIds
        /\ result[t].kind = "Err"
        /\ DOMAIN providers # {}

\* the rpc_url the configs give for chain id c
UrlOf(c) == (CHOOSE i \in DOMAIN configs : configs[i].chain_id = c)

Resolving(c) ==
    {t \in Callers : call[t].op = "get_provider" /\ call[t].chain_id = c}

\* no call for chain id c is running
Quiet(c) == \A t \in Callers : call[t].chain_id = c => ~InFlight(t)

\* every cache entry is a handle connected to the url configured for its key
CacheSound ==
    \A c \in DOMAIN providers :
        /\ c \in ConfiguredIds
        /\ providers[c].url = configs[UrlOf(c)].rpc_url
        /\ providers[c].id \in 1..(nextHandle - 1)

\* C5 as stated: after concurrent get_provider calls for one configured
\* chain id have all completed, a handle is retrievable for it
RaceLeavesOneHandle ==
    \A c \in ConfiguredIds :
        (stats[c].overlapped /\ Quiet(c) /\ Cardinality(Resolving(c)) >= 2)
            => c \in DOMAIN providers

\* C5 amended: no get_provider call panics and the cache stays sound; after
\* concurrent get_provider calls for one configured chain id have all
\* completed, one handle is retrievable for it if an establishment for it
\* succeeded, and none if every establishment failed
RaceLeavesOneHandleIfConnected ==
    /\ \A t \in Callers : call[t].op = "get_provider" => result[t] # Panic
    /\ CacheSound
    /\ \A c \in ConfiguredIds :
        (stats[c].overlapped /\ Quiet(c) /\ Cardinality(Resolving(c)) >= 2)
            => /\ stats[c].established >= 1 => c \in DOMAIN providers
               /\ stats[c].established = 0 => c \notin DOMAIN providers

\* C5 witness: two get_provider calls for one chain id ran at the same
\* time, both stored a handle, both have completed
BothRacersStored ==
    \E c \in ConfiguredIds :
        /\ stats[c].overlapped /\ Quiet(c)
        /\ Cardinality(Resolving(c)) >= 2
        /\ stats[c].writes >= 2
        /\ c \in DOMAIN providers
        /\ \A t \in Resolving(c) : result[t].kind = "Ok"

\* C6: a lookup that finds a handle stored for the chain id returns exactly
\* that handle, without searching the configs, without a connection attempt
\* and without writing the cache
CachedHandleReturned ==
    [][\A t \in Callers :
          LET c == call[t].chain_id IN
          (pc[t] = "lookup" /\ Moves(t) /\ c \in DOMAIN providers) =>
              /\ provider'[t] = Ok(providers[c])
              /\ call[t].op = "get_provider" =>
                    pc'[t] = "done" /\ result'[t] = Ok(providers[c])
              /\ call[t].op \in GatewayOps => pc'[t] = "query"
              /\ steps'[t] = NoSteps
              /\ NoConnectNoWrite
      ]_vars

\* C6 witness: a get_provider call has returned a handle from the cache
\* although the cache was written again by another call afterwards
CacheHitCompleted ==
    \E t \in Callers :
        /\ pc[t] = "done" /\ call[t].op = "get_provider"
        /\ result[t].kind = "Ok"
        /\ steps[t] = NoSteps
        /\ providers[call[t].chain_id] # result[t].value

\* the handles the calls for chain id c hold
HandlesHeld(c) ==
    {provider[t].value :
        t \in {u \in Callers : call[u].chain_id = c /\ provider[u].kind = "Ok"}}

\* C7: when the calls for a configured chain id ran one after another and
\* the first one connected, exactly one connection was established for that
\* id however many calls followed, the cache was written once for it, and
\* every call got the same handle, the cached one
SequentialCallsShareOneHandle ==
    \A c \in ConfiguredIds :
        (~stats[c].overlapped /\ stats[c].failed = 0 /\ stats[c].established >= 1)
            => /\ stats[c].established = 1
               /\ stats[c].writes <= 1
               /\ Cardinality(HandlesHeld(c)) <= 1
               /\ stats[c].writes = 1 =>
                    /\ c \in DOMAIN providers
                    /\ HandlesHeld(c) \subseteq {providers[c]}
               /\ Quiet(c) => stats[c].writes = 1

\* C7 witness: after a first call that connected, two later calls for the
\* same chain id, made one after another, have completed
ThreeSequentialCalls ==
    \E c \in ConfiguredIds : \E t, u \in Callers :
        /\ t # u
        /\ ~stats[c].overlapped /\ stats[c].failed = 0
        /\ stats[c].established = 1
        /\ calls = 3
        /\ call[t].chain_id = c /\ call[u].chain_id = c
        /\ pc[t] = "done" /\ pc[u] = "done"
        /\ steps[t].connect = 0 /\ steps[u].connect = 0
        /\ provider[t].kind = "Ok" /\ provider[u].kind = "Ok"

\* C8: the cache only grows: every step keeps every chain id that has an
\* entry, whatever the step is (a query answered or failed, a failed
\* establishment of another caller, a request for an unknown id)
CacheNeverShrinks ==
    [][DOMAIN providers \subseteq DOMAIN providers']_vars

\* C8 witness: a chain id still has its entry after an establishment for it
\* failed and a query on it failed
EntryKeptAfterFaults ==
    \E c \in DOMAIN providers :
        /\ stats[c].failed >= 1
        /\ \E t \in Callers :
              /\ call[t].chain_id = c /\ pc[t] = "done"
              /\ reply[t].kind = "Err"

\* C9: a step of a call for one chain id leaves the cache entry and the
\* connection counts of every other chain id as they were, and leaves every
\* other caller's call where it was
OtherChainsUntouched ==
    [][\A t \in Callers :
          Moves(t) =>
              /\ \A c \in RequestIds \ {call'[t].chain_id} :
                    /\ c \in DOMAIN providers' <=> c \in DOMAIN providers
                    /\ c \in DOMAIN providers => providers'[c] = providers[c]
                    /\ stats'[c] = stats[c]
              /\ \A u \in Callers \ {t} :
                    /\ pc'[u] = pc[u] /\ call'[u] = call[u]
                    /\ provider'[u] = provider[u] /\ reply'[u] = reply[u]
                    /\ result'[u] = result[u]
      ]_vars

\* C9 witness: a call for one chain id has ended in a fault while another
\* chain id has a cache entry and a call waiting on its query
FaultBesideRunningQuery ==
    \E t, u \in Callers :
        /\ call[t].chain_id # call[u].chain_id
        /\ pc[t] = "done" /\ result[t].kind \in {"Err", "Panic"}
        /\ pc[u] = "query"
        /\ call[u].chain_id \in DOMAIN providers

\* C10: a finalised_header call whose connection was resolved and whose
\* query failed or found no block returns a NodeFailure or GenericFailure
\* error carrying the chain id
HeaderFailureReturned ==
    \A t \in Callers :
        ( /\ pc[t] = "done" /\ call[t].op = "finalised_header"
          /\ provider[t].kind = "Ok"
          /\ \/ reply[t].kind = "Err"
             \/ reply[t].kind = "Ok" /\ reply[t].value.kind = "None" )
        => /\ result[t].kind = "Err"
           /\ result[t].error.variant \in {"NodeFailure", "GenericFailure"}
           /\ result[t].error.chain_id = call[t].chain_id

\* the rpc_url the configs give for chain id c
ConfigUrl(c) == configs[UrlOf(c)].rpc_url

\* C11: a transaction_receipt call whose connection was resolved and whose
\* query failed returns a GenericFailure error carrying the chain id
ReceiptFailureReturned ==
    \A t \in Callers :
        ( /\ pc[t] = "done" /\ call[t].op = "transaction_receipt"
          /\ provider[t].kind = "Ok"
          /\ reply[t].kind = "Err" )
        => /\ result[t].kind = "Err"
           /\ result[t].error.variant = "GenericFailure"
           /\ result[t].error.chain_id = call[t].chain_id

\* C12: when the node answers a transaction_receipt query, the call returns
\* Ok: Ok(None) while the node has no receipt for the hash, and otherwise
\* the node's receipt as it is, with the hash asked for and its success flag
ReceiptOrAbsence ==
    [][\A t \in Callers :
          LET c == call[t].chain_id IN
          ( /\ pc[t] = "query" /\ Moves(t)
            /\ call[t].op = "transaction_receipt"
            /\ reply'[t].kind = "Ok" )
          => /\ pc'[t] = "done"
             /\ result'[t].kind = "Ok"
             /\ result'[t].value = reply'[t].value
             /\ IF head[ConfigUrl(c)] >= 1
                THEN /\ result'[t].value.kind = "Some"
                     /\ result'[t].value.value.transaction_hash = call[t].arg.hash
                     /\ result'[t].value.value.status = TRUE
                     /\ result'[t].value.value.origin = ConfigUrl(c)
                ELSE result'[t] = Ok(None)
      ]_vars

\* C12 witness: one transaction_receipt call has returned the absence
\* marker and another, after the block was mined, the receipt
AbsentThenPresentReceipt ==
    \E t, u \in Callers :
        /\ call[t].op = "transaction_receipt" /\ pc[t] = "done"
        /\ call[u].op = "transaction_receipt" /\ pc[u] = "done"
        /\ call[t].chain_id = call[u].chain_id
        /\ result[t] = Ok(None)
        /\ result[u].kind = "Ok" /\ result[u].value.kind = "Some"

\* C13: every handle in the cache under a chain id, and every handle
\* get_provider hands to a call for that id, is connected to the rpc_url
\* the configs give for that id; a header a call returns comes from the
\* node behind that url
HandleBoundToConfiguredUrl ==
    /\ \A c \in DOMAIN providers : providers[c].url = ConfigUrl(c)
    /\ \A t \in Callers :
          /\ provider[t].kind = "Ok" =>
                provider[t].value.url = ConfigUrl(call[t].chain_id)
          /\ (call[t].op = "finalised_header" /\ result[t].kind = "Ok") =>
                result[t].value.origin = ConfigUrl(call[t].chain_id)

\* C13 witness: finalised_header has answered for both configured chains,
\* the two headers showing different heights, each from its own node
TwoChainsAnswered ==
    \E t, u \in Callers :
        /\ call[t].op = "finalised_header" /\ call[u].op = "finalised_header"
        /\ call[t].chain_id = 1 /\ call[u].chain_id = 2
        /\ result[t].kind = "Ok" /\ result[u].kind = "Ok"
        /\ result[t].value.origin # result[u].value.origin
        /\ result[t].value.number # result[u].value.number
        /\ {1, 2} \subseteq DOMAIN providers

\* caller t completes its lookup with the cached handle in one step that
\* leaves every other caller where it is
LookupServed(t) ==
    /\ Lookup(t)
    /\ pc'[t] \in {"done", "query"}
    /\ provider'[t] = Ok(providers[call[t].chain_id])
    /\ \A u \in Callers \ {t} : pc'[u] = pc[u]

\* C14: a lookup for a chain id that has an entry does not wait on network
\* I/O: whenever a caller is at its lookup and the entry exists, the lookup
\* can complete and return at once, also while other callers are suspended
\* in connection establishment for the same or another chain id
CachedLookupNeverWaits ==
    \A t \in Callers :
        (pc[t] = "lookup" /\ call[t].chain_id \in DOMAIN providers)
            => ENABLED LookupServed(t)

\* C14 witness: a call was served from the cache while another caller,
\* which had missed the cache for the same chain id before the entry was
\* stored, is still suspended in its connect
ServedWhileOtherConnects ==
    \E t, u \in Callers :
        /\ t # u
        /\ pc[u] = "connect" /\ call[u].chain_id = call[t].chain_id
        /\ pc[t] = "done" /\ call[t].op = "get_provider"
        /\ steps[t] = NoSteps
        /\ result[t].kind = "Ok"

\* C15: the error object made from a ChainManagerError carries the reason
\* as its message and the chain id as its data, and the code tells the
\* variant: two conversions give the same code exactly when the variants
\* are the same, the four codes being -4004, -4005, -4006 and -4007
WireCodesDistinct ==
    /\ wire # NoWire =>
          /\ wire.message = thrown.reason
          /\ wire.data = Some(thrown.chain_id)
          /\ wire.code \in {-4004, -4005, -4006, -4007}
    /\ \A a, b \in sent : (a.code = b.code) <=> (a.variant = b.variant)

\* C15 witness: all four variants have been converted
AllVariantsConverted ==
    /\ {a.variant : a \in sent} = Variants
    /\ wire # NoWire

HasDuplicateIds(cfgs) ==
    \E i, j \in DOMAIN cfgs : i # j /\ cfgs[i].chain_id = cfgs[j].chain_id

\* C17: a config list with a repeated chain id is rejected at construction:
\* no gateway built from it ever takes a request
DuplicateConfigsRejected ==
    HasDuplicateIds(configs) => \A t \in Callers : pc[t] = "idle"

\* C18: block data is not cached: a finalised_header call that returns a
\* header has issued its own query, and the header is the node's block for
\* the selector at the time of that query: for Latest, the node's height at
\* that moment, whatever earlier calls returned
HeaderFromNodeAtCallTime ==
    [][\A t \in Callers :
          LET c == call[t].chain_id IN
          ( /\ pc[t] = "query" /\ Moves(t)
            /\ call[t].op = "finalised_header"
            /\ result'[t].kind = "Ok" )
          => /\ steps'[t].query = 1
             /\ result'[t].value.number =
                   IF call[t].arg = Latest THEN head[ConfigUrl(c)]
                   ELSE call[t].arg.number
             /\ result'[t].value.number <= head[ConfigUrl(c)]
      ]_vars

\* C18 witness: two finalised_header calls for the same chain id and the
\* Latest selector have returned, the node having advanced in between: one
\* returned block 0, the other block 1
LatestAdvancedBetweenCalls ==
    \E t, u \in Callers :
        /\ call[t].op = "finalised_header" /\ call[u] = call[t]
        /\ call[t].arg = Latest
        /\ result[t].kind = "Ok" /\ result[u].kind = "Ok"
        /\ result[t].value.number = 0
        /\ result[u].value.number = 1

\* C19: every chain id with a cache entry is one of the configured chain
\* ids, whatever calls were made
CacheKeysConfigured == DOMAIN providers \subseteq ConfiguredIds

\* C19 witness: every configured chain id has an entry, and a call for an
\* unconfigured id has completed
AllConfiguredCachedUnknownAsked ==
    /\ DOMAIN providers = ConfiguredIds
    /\ \E t \in Callers :
          /\ pc[t] = "done"
          /\ call[t].op # "none" /\ call[t].chain_id \notin ConfiguredIds

\* C20: the store of a call writes the handle that call built over whatever
\* the cache held and the call returns its own handle; so after two calls
\* for one chain id both stored, the cache holds the handle stored last and
\* the call that stored first holds a different one
LastStoreWins ==
    [][\A t \in Callers :
          LET c == call[t].chain_id IN
          (pc[t] = "insert" /\ Moves(t)) =>
              /\ provider'[t] = provider[t]
              /\ provider[t].kind = "Ok"
              /\ \A u \in Callers \ {t} :
                    (provider[u] = provider[t]) => steps[u].connect = 0
              /\ providers'[c] = provider[t].value
              /\ call[t].op = "get_provider" => result'[t] = provider[t]
              /\ \A u \in Callers \ {t} :
                    ( /\ call[u].chain_id = c
                      /\ steps[u].insert = 1 /\ provider[u].kind = "Ok" )
                    => provider[u].value # providers'[c]
      ]_vars

\* C20 witness: two get_provider calls for one chain id have both stored
\* and returned; the cache holds the handle of one, the other call holds a
\* handle that is not the cached one
FirstStorerHoldsStaleHandle ==
    \E t, u \in Callers : \E c \in ConfiguredIds :
        /\ t # u
        /\ call[t].op = "get_provider" /\ call[u].op = "get_provider"
        /\ call[t].chain_id = c /\ call[u].chain_id = c
        /\ pc[t] = "done" /\ pc[u] = "done"
        /\ steps[t].insert = 1 /\ steps[u].insert = 1
        /\ result[u] = Ok(providers[c])
        /\ result[t].kind = "Ok" /\ result[t].value # providers[c]

====
